---- MODULE Spec2Model ----
(***************************************************************************)
(* Ceremony-date detection of maeetake/Metro:                              *)
(*   src/analyze_school/school_celemony_prediction.py    (Policy A)        *)
(*   src/analyze_school/school_celemony_prediction_2.py  (Policy B)        *)
(*                                                                         *)
(* Numbers.  pandas computes baseline and ratio in float64.  Counts are    *)
(* small integers, so a rolling median is an integer or a half-integer:    *)
(* a baseline is kept as twice its value.  A ratio departures / baseline   *)
(* is kept as the exact fraction (2 * departures) / twice; float64         *)
(* division gives +inf for x / 0 with x > 0 and NaN for 0 / 0 and for a    *)
(* NaN operand.  The multipliers drawn are dyadic fractions, which float64 *)
(* holds exactly, so the comparisons on fractions decide as the floats do. *)
(***************************************************************************)
EXTENDS Integers, Sequences, FiniteSets, TLC

VARIABLES
    pc,          \* position of the run
    df,          \* detect_start_date: the station's frame, rows (data_date, departures)
    window,      \* --window
    multiplier,  \* --multiplier, a fraction [num, den]
    min_count,   \* --min_count
    guarantee,   \* --guarantee / --no-guarantee
    dateA,       \* value returned by school_celemony_prediction.detect_start_date
    dateB,       \* value returned by school_celemony_prediction_2.detect_start_date
    rides,       \* main: the trip rows loaded, (data_date, depature_station)
    schools,     \* main: the stations of the schools table
    daily,       \* main: the frame returned by aggregate_daily_counts
    preds,       \* main: the frame returned by predict_ceremony_dates
    overall,     \* main: the value returned by choose_overall_date
    fault,       \* the exception that ended the run, "none" while there is none
    frame,       \* detect_start_date: its frame once sorted, with baseline and ratio
    holidays,    \* the dates jpholiday.is_holiday answers True for
    exclude_weekend_holiday,  \* --exclude-weekend-holiday
    mask,        \* main of script 2: the mask of the calendar filter, <<>> until computed
    names,       \* the name of each station of preds, as its pieces between ", "
    summary      \* save_date_summary: the rows written to the CSV

config == <<window, multiplier, min_count, guarantee>>
detectVars == <<df, dateA, dateB, frame>>
mainVars == <<rides, schools, daily, preds, overall, fault>>
calendarVars == <<holidays, exclude_weekend_holiday, mask>>
summaryVars == <<names, summary>>
vars == <<pc, config, detectVars, mainVars, calendarVars, summaryVars>>

----------------------------------------------------------------------------
(* Bounds of the inputs drawn.                                             *)

MaxLen == 4
MaxCount == 2
MaxRides == 3
MaxStations == 2
MaxDay == 2
MaxPreds == 5

\* pd.NaT: no date.  Dates are day numbers 1, 2, ...
NaT == 0

\* NaN of a float column.
NaN == [nan |-> TRUE, twice |-> 0]

Windows == {2, 3}
Multipliers == {[num |-> 5, den |-> 4], [num |-> 3, den |-> 2], [num |-> 2, den |-> 1]}
MinCounts == {0, 1, 2}

----------------------------------------------------------------------------
(* pandas primitives used by detect_start_date.                            *)

\* Insert one row into a frame already in ascending data_date order.
InsertRow(r, s) ==
    LET k == Cardinality({i \in 1..Len(s) : s[i].data_date <= r.data_date})
    IN  SubSeq(s, 1, k) \o <<r>> \o SubSeq(s, k + 1, Len(s))

RECURSIVE sort_values(_)
\* df.sort_values("data_date")
sort_values(f) ==
    IF f = <<>> THEN <<>>
    ELSE InsertRow(f[Len(f)], sort_values(SubSeq(f, 1, Len(f) - 1)))

InsertInt(x, s) ==
    LET k == Cardinality({i \in 1..Len(s) : s[i] <= x})
    IN  SubSeq(s, 1, k) \o <<x>> \o SubSeq(s, k + 1, Len(s))

RECURSIVE SortInts(_)
SortInts(s) ==
    IF s = <<>> THEN <<>>
    ELSE InsertInt(s[Len(s)], SortInts(SubSeq(s, 1, Len(s) - 1)))

\* Twice the median of a non-empty sequence of integers: the middle value, or
\* the mean of the two middle values when the length is even.
median2(vals) ==
    LET s == SortInts(vals)
        n == Len(s)
    IN  IF n % 2 = 1 THEN 2 * s[(n + 1) \div 2]
        ELSE s[n \div 2] + s[n \div 2 + 1]

\* rolling median over the w observations before the current one.
rolling_median_previous(s, w) ==
    [i \in 1..Len(s) |->
        IF i <= w THEN NaN
        ELSE [nan |-> FALSE,
              twice |-> median2([k \in 1..w |-> s[i - w + k - 1].departures])]]

\* df["departures"].rolling(w, min_periods=w).median(), on a sorted frame:
\* NaN until w observations are available, then the median of the last w
\* observations, the current one included.
rolling_median(s, w) ==
    [i \in 1..Len(s) |->
        IF i < w THEN NaN
        ELSE [nan |-> FALSE,
              twice |-> median2([k \in 1..w |-> s[i - w + k].departures])]]

\* df["departures"] / df["baseline"] for one row, as float64 division does it.
divide(departures, b) ==
    IF b.nan THEN [kind |-> "nan", num |-> 0, den |-> 1]
    ELSE IF b.twice = 0
         THEN IF departures = 0 THEN [kind |-> "nan", num |-> 0, den |-> 1]
              ELSE [kind |-> "inf", num |-> 1, den |-> 0]
         ELSE [kind |-> "fin", num |-> 2 * departures, den |-> b.twice]

\* The frame after lines 78-80: sorted, with the baseline and ratio columns.
with_ratio(f, w) ==
    LET s == sort_values(f)
        b == rolling_median(s, w)
        rows == [i \in 1..Len(s) |->
                    [data_date |-> s[i].data_date,
                     departures |-> s[i].departures,
                     baseline |-> b[i],
                     ratio |-> divide(s[i].departures, b[i])]]
    IN  SubSeq(rows, 1, Len(s))

\* Series.notna() of one value of the ratio column.
notna(r) == r.kind # "nan"

\* r1 > r2 on two non-NaN ratios.
ratio_gt(r1, r2) ==
    IF r1.kind = "inf" THEN r2.kind # "inf"
    ELSE IF r2.kind = "inf" THEN FALSE
    ELSE r1.num * r2.den > r2.num * r1.den

\* df["ratio"].ge(multiplier) for one row: NaN compares false.
ratio_ge(r, m) ==
    IF r.kind = "nan" THEN FALSE
    ELSE IF r.kind = "inf" THEN TRUE
    ELSE r.num * m.den >= m.num * r.den

\* df["baseline"].ge(min_count) for one row: NaN compares false.
baseline_ge(b, mc) == (~b.nan) /\ b.twice >= 2 * mc

\* .iloc[0] of a selection df.loc[mask, ...]: the first, in frame order, of the
\* positions selected.
first_row(selected) == CHOOSE i \in selected : \A j \in selected : i <= j

\* idxmax taking the last of the rows that share the largest ratio.
idxmax_last(t) ==
    LET cand == {i \in 1..Len(t) : (~t[i].baseline.nan) /\ notna(t[i].ratio)}
    IN  CHOOSE i \in cand :
            /\ \A j \in cand : ~ratio_gt(t[j].ratio, t[i].ratio)
            /\ \A j \in cand : j > i => ratio_gt(t[i].ratio, t[j].ratio)

\* after_baseline["ratio"].idxmax(): the first row, in frame order, whose ratio
\* is the largest of the non-NaN ratios of the rows with a baseline.
idxmax(t) ==
    LET cand == {i \in 1..Len(t) : (~t[i].baseline.nan) /\ notna(t[i].ratio)}
    IN  CHOOSE i \in cand :
            /\ \A j \in cand : ~ratio_gt(t[j].ratio, t[i].ratio)
            /\ \A j \in cand : j < i => ratio_gt(t[i].ratio, t[j].ratio)

\* _fallback_date taking the last of the rows with the maximum departures.
fallback_date_last(t) ==
    LET max_dep == CHOOSE m \in {t[i].departures : i \in 1..Len(t)} :
                       \A i \in 1..Len(t) : t[i].departures <= m
    IN  t[CHOOSE i \in 1..Len(t) :
              /\ t[i].departures = max_dep
              /\ \A j \in (i + 1)..Len(t) : t[j].departures # max_dep].data_date

\* _fallback_date: the first row, in frame order, with the maximum departures.
fallback_date(t) ==
    LET max_dep == CHOOSE m \in {t[i].departures : i \in 1..Len(t)} :
                       \A i \in 1..Len(t) : t[i].departures <= m
    IN  t[first_row({i \in 1..Len(t) : t[i].departures = max_dep})].data_date

----------------------------------------------------------------------------
(* detect_start_date, Policy A (school_celemony_prediction.py).            *)

mask_spike(r, m, mc) == baseline_ge(r.baseline, mc) /\ ratio_ge(r.ratio, m)

\* not after_baseline.empty and after_baseline["ratio"].notna().any()
has_ratio(t) == \E i \in 1..Len(t) : (~t[i].baseline.nan) /\ notna(t[i].ratio)

\* detect_start_date returning the spike row of the largest ratio.
detect_start_date_maxspike(f, w, m, mc, g) ==
    LET t == with_ratio(f, w)
        spikes == {i \in 1..Len(t) : mask_spike(t[i], m, mc)}
    IN  IF spikes # {}
        THEN t[CHOOSE i \in spikes :
                   /\ \A j \in spikes : ~ratio_gt(t[j].ratio, t[i].ratio)
                   /\ \A j \in spikes : j < i => ratio_gt(t[i].ratio, t[j].ratio)].data_date
        ELSE IF ~g THEN NaT
        ELSE IF has_ratio(t) THEN t[idxmax(t)].data_date
        ELSE fallback_date(t)

\* detect_start_date returning the last spike row.
detect_start_date_lastspike(f, w, m, mc, g) ==
    LET t == with_ratio(f, w)
        spikes == {i \in 1..Len(t) : mask_spike(t[i], m, mc)}
    IN  IF spikes # {}
        THEN t[CHOOSE i \in spikes : \A j \in spikes : j <= i].data_date
        ELSE IF ~g THEN NaT
        ELSE IF has_ratio(t) THEN t[idxmax(t)].data_date
        ELSE fallback_date(t)

\* detect_start_date without the test of guarantee.
detect_start_date_always(f, w, m, mc, g) ==
    LET t == with_ratio(f, w)
        spikes == {i \in 1..Len(t) : mask_spike(t[i], m, mc)}
    IN  IF spikes # {}
        THEN t[first_row(spikes)].data_date
        ELSE IF has_ratio(t) THEN t[idxmax(t)].data_date
        ELSE fallback_date(t)

\* detect_start_date without the last fallback on the raw counts.
detect_start_date_noraw(f, w, m, mc, g) ==
    LET t == with_ratio(f, w)
        spikes == {i \in 1..Len(t) : mask_spike(t[i], m, mc)}
    IN  IF spikes # {}
        THEN t[first_row(spikes)].data_date
        ELSE IF ~g THEN NaT
        ELSE IF has_ratio(t) THEN t[idxmax(t)].data_date
        ELSE NaT

\* detect_start_date going from the threshold scan straight to the raw counts.
detect_start_date_rawonly(f, w, m, mc, g) ==
    LET t == with_ratio(f, w)
        spikes == {i \in 1..Len(t) : mask_spike(t[i], m, mc)}
    IN  IF spikes # {}
        THEN t[first_row(spikes)].data_date
        ELSE IF ~g THEN NaT
        ELSE fallback_date(t)

detect_start_date(f, w, m, mc, g) ==
    LET t == with_ratio(f, w)
        spikes == {i \in 1..Len(t) : mask_spike(t[i], m, mc)}
    IN  IF spikes # {}
        THEN t[first_row(spikes)].data_date
        ELSE IF ~g THEN NaT
        ELSE IF has_ratio(t) THEN t[idxmax(t)].data_date
        ELSE fallback_date(t)

\* Policy B with the threshold scan of Policy A in front.
detect_start_date_2_gated(f, w, m, mc, g) ==
    LET t == with_ratio(f, w)
        spikes == {i \in 1..Len(t) : mask_spike(t[i], m, mc)}
    IN  IF spikes # {}
        THEN t[first_row(spikes)].data_date
        ELSE IF has_ratio(t) THEN t[idxmax(t)].data_date
        ELSE IF g THEN fallback_date(t)
        ELSE NaT

(* detect_start_date, Policy B (school_celemony_prediction_2.py).          *)
detect_start_date_2(f, w, m, mc, g) ==
    LET t == with_ratio(f, w)
    IN  IF has_ratio(t) THEN t[idxmax(t)].data_date
        ELSE IF g THEN fallback_date(t)
        ELSE NaT

Reverse(s) == [i \in 1..Len(s) |-> s[Len(s) + 1 - i]]

----------------------------------------------------------------------------
(* The pipeline of school_celemony_prediction.py.  Stations are numbered   *)
(* in the order of their names.                                            *)

\* (d1, s1) before (d2, s2) in the order of the group keys.
key_lt(k1, k2) == k1[1] < k2[1] \/ (k1[1] = k2[1] /\ k1[2] < k2[2])

\* aggregate_daily_counts counting, for each key, the rows of its date.
aggregate_daily_counts_by_date(r) ==
    LET keys == {<<r[i].data_date, r[i].depature_station>> : i \in 1..Len(r)}
        nth(k) == CHOOSE x \in keys : Cardinality({y \in keys : key_lt(y, x)}) = k - 1
    IN  [k \in 1..Cardinality(keys) |->
            [data_date |-> nth(k)[1],
             station |-> nth(k)[2],
             departures |-> Cardinality({i \in 1..Len(r) :
                 r[i].data_date = nth(k)[1]})]]

\* aggregate_daily_counts with a row of zero departures for every pair of a
\* date and a station of the input that has no trip.
aggregate_daily_counts_filled(r) ==
    LET keys == {r[i].data_date : i \in 1..Len(r)}
                    \X {r[i].depature_station : i \in 1..Len(r)}
        nth(k) == CHOOSE x \in keys : Cardinality({y \in keys : key_lt(y, x)}) = k - 1
    IN  [k \in 1..Cardinality(keys) |->
            [data_date |-> nth(k)[1],
             station |-> nth(k)[2],
             departures |-> Cardinality({i \in 1..Len(r) :
                 r[i].data_date = nth(k)[1] /\ r[i].depature_station = nth(k)[2]})]]

\* aggregate_daily_counts grouping only adjacent rows: one row per run of
\* consecutive trips with the same key.
aggregate_daily_counts_runs(r) ==
    LET starts == {i \in 1..Len(r) : i = 1 \/ r[i] # r[i - 1]}
        nth(k) == CHOOSE i \in starts : Cardinality({j \in starts : j < i}) = k - 1
        runlen(i) == CHOOSE n \in 1..Len(r) :
                         /\ \A k \in 0..(n - 1) : i + k <= Len(r) /\ r[i + k] = r[i]
                         /\ (i + n > Len(r) \/ r[i + n] # r[i])
    IN  [k \in 1..Cardinality(starts) |->
            [data_date |-> r[nth(k)].data_date,
             station |-> r[nth(k)].depature_station,
             departures |-> runlen(nth(k))]]

\* rides.groupby(["data_date", "depature_station"]).size().reset_index(...):
\* one row per key present, in ascending key order, with the number of rows.
aggregate_daily_counts(r) ==
    LET keys == {<<r[i].data_date, r[i].depature_station>> : i \in 1..Len(r)}
        nth(k) == CHOOSE x \in keys : Cardinality({y \in keys : key_lt(y, x)}) = k - 1
    IN  [k \in 1..Cardinality(keys) |->
            LET key == nth(k)
            IN  [data_date |-> key[1],
                 station |-> key[2],
                 departures |-> Cardinality({i \in 1..Len(r) :
                     r[i].data_date = key[1] /\ r[i].depature_station = key[2]})]]

\* A DataFrame of prediction records: pd.DataFrame([]) has no columns.
NoFrame == [columns |-> {}, rows |-> <<>>]

DataFrame(recs) ==
    IF recs = <<>> THEN NoFrame
    ELSE [columns |-> {"station", "pred_ceremony_date"}, rows |-> recs]

\* predict_ceremony_dates running the detection of every station on all the
\* rows of subset.
predict_ceremony_dates_ungrouped(d, target, w, m, mc, g) ==
    LET subset == SelectSeq(d, LAMBDA row : row.station \in target)
        groups == {subset[i].station : i \in 1..Len(subset)}
        nth(k) == CHOOSE x \in groups : Cardinality({y \in groups : y < x}) = k - 1
    IN  DataFrame([k \in 1..Cardinality(groups) |->
            [station |-> nth(k),
             pred_ceremony_date |-> detect_start_date(subset, w, m, mc, g)]])

\* One record per group of subset.groupby("station"): the stations that have
\* rows in subset, in ascending order, each with the date detected on its rows.
predict_ceremony_dates(d, target, w, m, mc, g) ==
    LET subset == SelectSeq(d, LAMBDA row : row.station \in target)
        groups == {subset[i].station : i \in 1..Len(subset)}
        nth(k) == CHOOSE x \in groups : Cardinality({y \in groups : y < x}) = k - 1
        group(st) == SelectSeq(subset, LAMBDA row : row.station = st)
    IN  DataFrame([k \in 1..Cardinality(groups) |->
            [station |-> nth(k),
             pred_ceremony_date |-> detect_start_date(group(nth(k)), w, m, mc, g)]])

RECURSIVE uniques(_)
\* The distinct values of a sequence, in the order of their first appearance.
uniques(s) ==
    IF s = <<>> THEN <<>>
    ELSE LET u == uniques(SubSeq(s, 1, Len(s) - 1))
         IN  IF \E i \in 1..Len(u) : u[i] = s[Len(s)] THEN u
             ELSE Append(u, s[Len(s)])

InsertCount(r, s) ==
    LET k == Cardinality({i \in 1..Len(s) : s[i].count >= r.count})
    IN  SubSeq(s, 1, k) \o <<r>> \o SubSeq(s, k + 1, Len(s))

RECURSIVE sort_counts(_)
sort_counts(s) ==
    IF s = <<>> THEN <<>>
    ELSE InsertCount(s[Len(s)], sort_counts(SubSeq(s, 1, Len(s) - 1)))

\* preds["pred_ceremony_date"].value_counts(): NaT dropped, one entry per
\* distinct date with its number of rows, in descending order of count.
value_counts(rows) ==
    LET dates == SelectSeq([i \in 1..Len(rows) |-> rows[i].pred_ceremony_date],
                           LAMBDA d : d # NaT)
        u == uniques(dates)
    IN  sort_counts([k \in 1..Len(u) |->
            [value |-> u[k],
             count |-> Cardinality({i \in 1..Len(dates) : dates[i] = u[k]})]])

\* choose_overall_date returning the first entry of value_counts.
choose_overall_date_first(p) ==
    LET cnts == value_counts(p.rows)
    IN  IF cnts = <<>> THEN NaT ELSE cnts[1].value

\* choose_overall_date on a frame that has the column; None is written NaT.
choose_overall_date(p) ==
    LET cnts == value_counts(p.rows)
    IN  IF cnts = <<>> THEN NaT
        ELSE LET top == {cnts[i].value : i \in {k \in 1..Len(cnts) :
                            cnts[k].count = cnts[1].count}}
             IN  CHOOSE d \in top : \A e \in top : d <= e

RideRows == [data_date : 1..MaxDay, depature_station : 1..MaxStations]

Init ==
    /\ pc = "loaded"
    /\ rides \in UNION {[1..n -> RideRows] : n \in 1..MaxRides}
    /\ schools \in SUBSET (1..MaxStations)
    /\ window = 2
    /\ multiplier = [num |-> 3, den |-> 2]
    /\ min_count = 1
    /\ guarantee \in BOOLEAN
    /\ daily = <<>>
    /\ preds = NoFrame
    /\ overall = NaT
    /\ fault = "none"
    /\ df = <<>>
    /\ dateA = NaT
    /\ dateB = NaT
    /\ frame = <<>>
    /\ holidays = {}
    /\ exclude_weekend_holiday = FALSE
    /\ mask = <<>>
    /\ names = <<>>
    /\ summary = <<>>

\* main, line 188
AggregateDailyCounts ==
    /\ pc = "loaded"
    /\ daily' = aggregate_daily_counts(rides)
    /\ pc' = "aggregated"
    /\ UNCHANGED <<rides, schools, preds, overall, fault, config, detectVars, calendarVars, summaryVars>>

\* main, lines 189-196
PredictCeremonyDates ==
    /\ pc = "aggregated"
    /\ preds' = predict_ceremony_dates(daily, schools, window, multiplier,
                                       min_count, guarantee)
    /\ pc' = "predicted"
    /\ UNCHANGED <<rides, schools, daily, overall, fault, config, detectVars, calendarVars, summaryVars>>

\* main, line 198: preds["pred_ceremony_date"] raises KeyError on a frame
\* without that column, which ends the run.
ChooseOverallDate ==
    /\ pc = "predicted"
    /\ IF "pred_ceremony_date" \in preds.columns
       THEN /\ overall' = choose_overall_date(preds)
            /\ pc' = "chosen"
            /\ fault' = fault
       ELSE /\ fault' = "KeyError"
            /\ pc' = "aborted"
            /\ overall' = overall
    /\ UNCHANGED <<rides, schools, daily, preds, config, detectVars, calendarVars, summaryVars>>

Next == AggregateDailyCounts \/ PredictCeremonyDates \/ ChooseOverallDate

Spec == Init /\ [][Next]_vars

----------------------------------------------------------------------------
(* choose_overall_date on the frames predict_ceremony_dates can return:    *)
(* one row per station, each with a date or NaT.                           *)

\* A station name is held as its sequence of tokens: Sep stands for an
\* occurrence of ", " in it, any other token for text without ", ".
Sep == ", "

RECURSIVE join(_)
\* ", ".join(s) of a sequence of names.
join(s) ==
    IF s = <<>> THEN <<>>
    ELSE IF Len(s) = 1 THEN s[1]
    ELSE s[1] \o <<Sep>> \o join(Tail(s))

RECURSIVE split(_)
\* x.split(", "): the parts of x between the occurrences of ", ".
split(x) ==
    IF \A i \in 1..Len(x) : x[i] # Sep THEN <<x>>
    ELSE LET i == CHOOSE k \in 1..Len(x) :
                      x[k] = Sep /\ \A j \in 1..(k - 1) : x[j] # Sep
         IN  <<SubSeq(x, 1, i - 1)>> \o split(SubSeq(x, i + 1, Len(x)))

\* The rows save_date_summary writes: one per group of
\* preds.groupby("pred_ceremony_date"), which leaves NaT out and sorts the
\* dates, with the joined names of the group and the number of parts that
\* splitting the joined names gives.
save_date_summary(p, nm) ==
    LET dated == SelectSeq(p.rows, LAMBDA row : row.pred_ceremony_date # NaT)
        keys == SortInts(uniques([i \in 1..Len(dated) |-> dated[i].pred_ceremony_date]))
        stations(d) == LET g == SelectSeq(dated, LAMBDA row : row.pred_ceremony_date = d)
                       IN  join([i \in 1..Len(g) |-> nm[g[i].station]])
    IN  [k \in 1..Len(keys) |->
            [pred_ceremony_date |-> keys[k],
             stations |-> stations(keys[k]),
             count |-> Len(split(stations(keys[k])))]]

\* The name of station i without ", ", and a name with one ", " in it.
PlainName(i) == <<ToString(i)>>

CommaName(i) == <<ToString(i), Sep, "x">>

\* The names of the stations: all plain, or station 1 with ", " in its name.
NameTables ==
    {[i \in 1..MaxPreds |-> PlainName(i)],
     [i \in 1..MaxPreds |-> IF i = 1 THEN CommaName(i) ELSE PlainName(i)]}

PredFrames ==
    {DataFrame([i \in 1..Len(d) |-> [station |-> i, pred_ceremony_date |-> d[i]]]) :
        d \in UNION {[1..n -> 0..MaxDay] : n \in 1..MaxPreds}}

InitChoose ==
    /\ pc = "predicted"
    /\ preds \in PredFrames
    /\ overall = NaT
    /\ fault = "none"
    /\ rides = <<>>
    /\ schools = {}
    /\ daily = <<>>
    /\ window = 2
    /\ multiplier = [num |-> 3, den |-> 2]
    /\ min_count = 1
    /\ guarantee = TRUE
    /\ df = <<>>
    /\ dateA = NaT
    /\ dateB = NaT
    /\ frame = <<>>
    /\ holidays = {}
    /\ exclude_weekend_holiday = FALSE
    /\ mask = <<>>
    /\ names \in NameTables
    /\ summary = <<>>

\* save_date_summary(preds, Path("ceremony_summary_by_date.csv"))
SaveDateSummary ==
    /\ pc = "chosen"
    /\ summary' = save_date_summary(preds, names)
    /\ pc' = "saved"
    /\ UNCHANGED <<names, mainVars, config, detectVars, calendarVars>>

NextChoose == ChooseOverallDate \/ SaveDateSummary

SpecChoose == InitChoose /\ [][NextChoose]_vars

----------------------------------------------------------------------------
(* Detection on one station's frame: both scripts run on the same frame.   *)

\* A frame of n observations on days 1..n, in ascending row order.
Ascending(counts) ==
    [i \in 1..Len(counts) |-> [data_date |-> i, departures |-> counts[i]]]

CountSeqs == UNION {[1..n -> 0..MaxCount] : n \in 1..MaxLen}

Frames == {Ascending(c) : c \in CountSeqs} \cup {Reverse(Ascending(c)) : c \in CountSeqs}

InitDetect ==
    /\ pc = "start"
    /\ df \in Frames
    /\ window \in Windows
    /\ multiplier \in Multipliers
    /\ min_count \in MinCounts
    /\ guarantee \in BOOLEAN
    /\ dateA = NaT
    /\ dateB = NaT
    /\ frame = <<>>
    /\ holidays = {}
    /\ exclude_weekend_holiday = FALSE
    /\ mask = <<>>
    /\ names = <<>>
    /\ summary = <<>>
    /\ rides = <<>>
    /\ schools = {}
    /\ daily = <<>>
    /\ preds = NoFrame
    /\ overall = NaT
    /\ fault = "none"

DetectA ==
    /\ pc = "start"
    /\ dateA' = detect_start_date(df, window, multiplier, min_count, guarantee)
    /\ pc' = "detectedA"
    /\ frame' = with_ratio(df, window)
    /\ UNCHANGED <<df, dateB, config, mainVars, calendarVars, summaryVars>>

DetectB ==
    /\ pc = "detectedA"
    /\ dateB' = detect_start_date_2(df, window, multiplier, min_count, guarantee)
    /\ pc' = "detectedB"
    /\ frame' = with_ratio(df, window)
    /\ UNCHANGED <<df, dateA, config, mainVars, calendarVars, summaryVars>>

NextDetect == DetectA \/ DetectB

SpecDetect == InitDetect /\ [][NextDetect]_vars

----------------------------------------------------------------------------
(* Vocabulary of the properties of detection.  t is the frame of the       *)
(* state in date order with its baseline and ratio columns.                *)

Detected == pc \in {"detectedA", "detectedB"}

\* Points with baseline >= min_count and ratio >= m.
Qualifying(t, m) ==
    {i \in 1..Len(t) :
        /\ ~t[i].baseline.nan
        /\ t[i].baseline.twice >= 2 * min_count
        /\ ratio_ge(t[i].ratio, m)}

\* Points with a defined ratio.
Defined(t) == {i \in 1..Len(t) : notna(t[i].ratio)}

\* Points whose ratio is the maximum of the defined ratios.
MaxRatio(t) ==
    LET def == Defined(t)
    IN  {i \in def : \A j \in def : ~ratio_gt(t[j].ratio, t[i].ratio)}

\* Points whose trailing-window baseline is zero.
ZeroBaseline(t) == {i \in 1..Len(t) : (~t[i].baseline.nan) /\ t[i].baseline.twice = 0}

\* Dates of the rows of df whose departures are the maximum.
MaxCountDates ==
    {df[i].data_date : i \in {k \in 1..Len(df) :
        \A j \in 1..Len(df) : df[j].departures <= df[k].departures}}

Min(S) == CHOOSE x \in S : \A y \in S : x <= y

\* m1 < m2 on two multipliers.
mult_lt(m1, m2) == m1.num * m2.den < m2.num * m1.den

\* C1: under Policy A, when some point has baseline >= min_count and
\* ratio >= multiplier, the date returned is that of the earliest such point,
\* with either setting of guarantee.
C1_EarliestQualifying ==
    Detected =>
        LET t == with_ratio(df, window)
            q == Qualifying(t, multiplier)
        IN  q # {} => dateA = t[Min(q)].data_date

\* C1 witness: detection returned the earliest qualifying point although a
\* later point has a strictly larger ratio.
C1_Witness ==
    /\ Detected
    /\ LET t == with_ratio(df, window)
           q == Qualifying(t, multiplier)
       IN  /\ q # {}
           /\ dateA = t[Min(q)].data_date
           /\ \E j \in q : ratio_gt(t[j].ratio, t[Min(q)].ratio)

\* C2: under Policy A with guarantee on, when no point qualifies and some point
\* has a defined ratio, the date returned is that of the earliest of the
\* points whose ratio is the maximum of the defined ratios; min_count plays
\* no part in that choice.
C2_FallbackMaxRatio ==
    (Detected /\ guarantee) =>
        LET t == with_ratio(df, window)
        IN  (Qualifying(t, multiplier) = {} /\ Defined(t) # {})
                => dateA = t[Min(MaxRatio(t))].data_date

\* C2 witness: the fallback returned the earlier of two points that share the
\* maximum ratio, a point whose baseline is below min_count.
C2_Witness ==
    /\ Detected /\ guarantee
    /\ LET t == with_ratio(df, window)
           mx == MaxRatio(t)
       IN  /\ Qualifying(t, multiplier) = {}
           /\ Cardinality(mx) >= 2
           /\ t[Min(mx)].baseline.twice < 2 * min_count
           /\ dateA = t[Min(mx)].data_date

\* C3 as stated: for every larger multiplier m2, if the run with multiplier
\* and the run with m2 both return a date, the date with m2 is not earlier.
C3_Original ==
    Detected =>
        \A m2 \in Multipliers :
            LET d2 == detect_start_date(df, window, m2, min_count, guarantee)
            IN  (mult_lt(multiplier, m2) /\ dateA # NaT /\ d2 # NaT) => d2 >= dateA

\* C3 amended: for every larger multiplier m2 under which some point still
\* qualifies, both runs return a date and the date with m2 is not earlier.
C3_MonotoneWhenQualifying ==
    Detected =>
        LET t == with_ratio(df, window)
        IN  \A m2 \in Multipliers :
                (mult_lt(multiplier, m2) /\ Qualifying(t, m2) # {}) =>
                    LET d2 == detect_start_date(df, window, m2, min_count, guarantee)
                    IN  dateA # NaT /\ d2 # NaT /\ d2 >= dateA

\* C3 witness: raising the multiplier moved the date strictly later.
C3_Witness ==
    /\ Detected
    /\ dateA # NaT
    /\ \E m2 \in Multipliers :
           /\ mult_lt(multiplier, m2)
           /\ Qualifying(with_ratio(df, window), m2) # {}
           /\ detect_start_date(df, window, m2, min_count, guarantee) > dateA

\* C4: in both variants a point whose baseline is zero has an undefined ratio,
\* does not clear the multiplier and is not selected as the maximum-ratio date:
\* with guarantee off, Policy A never returns such a point, and Policy B
\* returns no date when every point with a baseline has a zero baseline.
C4_ZeroBaselineUndefined ==
    Detected =>
        LET t == with_ratio(df, window)
            z == ZeroBaseline(t)
        IN  /\ \A i \in z :
                   /\ ~notna(t[i].ratio)
                   /\ ~ratio_ge(t[i].ratio, multiplier)
                   /\ ~guarantee => dateA # t[i].data_date
            /\ (pc = "detectedB" /\ ~guarantee
                    /\ \A i \in 1..Len(t) : t[i].baseline.nan \/ i \in z)
                   => dateB = NaT

\* C8: for a frame of fewer than window rows, both variants return no date
\* when guarantee is off, and the earliest of the dates of maximum departures
\* when it is on.
C8_ShortSeries ==
    (Detected /\ Len(df) < window) =>
        LET expected == IF guarantee THEN Min(MaxCountDates) ELSE NaT
        IN  /\ dateA = expected
            /\ pc = "detectedB" => dateB = expected

\* C8 witness: a short frame in which two dates share the maximum departures,
\* resolved by both variants with guarantee on.
C8_Witness ==
    /\ pc = "detectedB" /\ guarantee
    /\ Len(df) < window
    /\ Cardinality(MaxCountDates) >= 2
    /\ \A i \in 1..Len(df) : df[i].departures >= 1
    /\ dateA = Min(MaxCountDates)
    /\ dateB = Min(MaxCountDates)

\* C9: under Policy A with guarantee off, when no point qualifies no date is
\* returned.
C9_NoFallbackUndefined ==
    (Detected /\ ~guarantee) =>
        (Qualifying(with_ratio(df, window), multiplier) = {} => dateA = NaT)

\* C9 witness: no date although some point has a defined ratio.
C9_Witness ==
    /\ Detected /\ ~guarantee
    /\ LET t == with_ratio(df, window)
       IN  Qualifying(t, multiplier) = {} /\ Defined(t) # {}
    /\ dateA = NaT

\* C10: whatever the multiplier and min_count of the run, Policy B returns
\* the earliest of the maximum-ratio points when some ratio is defined, else
\* the earliest date of maximum departures when guarantee is on, else no date.
C10_PolicyB ==
    pc = "detectedB" =>
        LET t == with_ratio(df, window)
        IN  dateB = IF Defined(t) # {} THEN t[Min(MaxRatio(t))].data_date
                    ELSE IF guarantee THEN Min(MaxCountDates)
                    ELSE NaT

\* C10 witness: Policy B returned the maximum-ratio date with guarantee off,
\* a date other than the one Policy A's threshold scan returned.
C10_Witness ==
    /\ pc = "detectedB" /\ ~guarantee
    /\ LET t == with_ratio(df, window)
       IN  /\ Defined(t) # {}
           /\ Qualifying(t, multiplier) # {}
           /\ dateB = t[Min(MaxRatio(t))].data_date
    /\ dateB # dateA

\* Dates of the rows of df.
FrameDates == {df[i].data_date : i \in 1..Len(df)}

\* C11: with guarantee on, both variants return a date on every non-empty
\* frame, one of the dates of the frame.
C11_GuaranteeAlwaysDate ==
    (Detected /\ guarantee /\ df # <<>>) =>
        /\ dateA # NaT /\ dateA \in FrameDates
        /\ pc = "detectedB" => (dateB # NaT /\ dateB \in FrameDates)

\* C11 witness: both variants returned a date on a frame where no point
\* qualifies and no ratio is defined.
C11_Witness ==
    /\ pc = "detectedB" /\ guarantee
    /\ LET t == with_ratio(df, window)
       IN  Qualifying(t, multiplier) = {} /\ Defined(t) = {}
    /\ dateA # NaT
    /\ dateB # NaT

\* C19: with guarantee on, when no point qualifies under Policy A the two
\* variants return the same date.
C19_PoliciesAgreeWithoutSpike ==
    (pc = "detectedB" /\ guarantee) =>
        (Qualifying(with_ratio(df, window), multiplier) = {} => dateA = dateB)

\* C19 witness: no point qualifies, both variants returned the maximum-ratio
\* date, and that date is not the date of the maximum departures.
C19_Witness ==
    /\ pc = "detectedB" /\ guarantee
    /\ LET t == with_ratio(df, window)
       IN  Qualifying(t, multiplier) = {} /\ Defined(t) # {}
    /\ dateA = dateB
    /\ dateA # NaT
    /\ dateA \notin MaxCountDates

\* The row of df with the p-th earliest date.
RowAt(p) ==
    df[CHOOSE i \in 1..Len(df) :
           Cardinality({j \in 1..Len(df) : df[j].data_date < df[i].data_date}) = p - 1]

\* The rows of df in date order.
InDateOrder == SubSeq([p \in 1..Len(df) |-> RowAt(p)], 1, Len(df))

\* The k-th smallest of the departures of the rows of s at the positions P.
KthDeparture(s, P, k) ==
    CHOOSE v \in {s[p].departures : p \in P} :
        /\ Cardinality({p \in P : s[p].departures < v}) < k
        /\ Cardinality({p \in P : s[p].departures <= v}) >= k

\* C14: in date order, the baseline of the p-th point (p counted from 1) is
\* undefined for p < window; for p >= window it is the median of the window
\* departures at positions p-window+1..p, the mean of the two middle values
\* when window is even (the baseline is held as twice its value).
C14_TrailingMedian ==
    pc = "detectedA" =>
        LET s == InDateOrder
        IN  /\ Len(frame) = Len(df)
            /\ \A p \in 1..Len(frame) :
                   /\ frame[p].data_date = s[p].data_date
                   /\ frame[p].departures = s[p].departures
                   /\ IF p < window THEN frame[p].baseline.nan
                      ELSE /\ ~frame[p].baseline.nan
                           /\ frame[p].baseline.twice =
                                  KthDeparture(s, (p - window + 1)..p, (window + 1) \div 2)
                                + KthDeparture(s, (p - window + 1)..p, window \div 2 + 1)

\* C14 witness: an even window whose two middle values differ, at a point whose
\* own departures are the larger of them, on a frame given in descending order.
C14_Witness ==
    /\ Detected
    /\ window % 2 = 0
    /\ Len(df) > window
    /\ df[1].data_date > df[Len(df)].data_date
    /\ \E p \in window..Len(frame) :
           /\ frame[p].baseline.twice % 2 = 1
           /\ 2 * frame[p].departures > frame[p].baseline.twice
    /\ \A p \in 1..(window - 1) : frame[p].baseline.nan

----------------------------------------------------------------------------
(* Properties of the pipeline and of the consensus.                        *)

Predicted == pc \in {"predicted", "chosen", "aborted"}

\* Target stations without a row in the input.
NoData == {st \in schools : \A i \in 1..Len(rides) : rides[i].depature_station # st}

\* The predicted dates that are defined, one per row of preds.
DefinedRows == {i \in 1..Len(preds.rows) : preds.rows[i].pred_ceremony_date # NaT}

\* C5: once the predictions are made, every target station without input rows
\* has an entry in preds, with no date.
C5_EntryForMissingStation ==
    Predicted =>
        \A st \in NoData :
            \E i \in 1..Len(preds.rows) :
                /\ preds.rows[i].station = st
                /\ preds.rows[i].pred_ceremony_date = NaT

\* C6: when no prediction is defined, choose_overall_date returns None and
\* raises nothing, also when preds has no entry at all.
C6_NoneWhenNothingDefined ==
    (pc \in {"chosen", "aborted"} /\ DefinedRows = {})
        => (pc = "chosen" /\ overall = NaT /\ fault = "none")

\* Number of rows of preds that predict date d.
Freq(d) == Cardinality({i \in 1..Len(preds.rows) : preds.rows[i].pred_ceremony_date = d})

DefinedDates == {preds.rows[i].pred_ceremony_date : i \in DefinedRows}

MostFrequent == {d \in DefinedDates : \A e \in DefinedDates : Freq(e) <= Freq(d)}

\* C7: choose_overall_date returns the earliest of the dates that occur most
\* often among the defined predictions, and returns the same for the rows in
\* the opposite order.
C7_PluralityEarliest ==
    (pc = "chosen" /\ DefinedDates # {}) =>
        /\ overall = Min(MostFrequent)
        /\ choose_overall_date(DataFrame(Reverse(preds.rows))) = overall

\* C7 witness: two stations predict one date and three a later date, and the
\* later date is returned.
C7_Witness ==
    /\ pc = "chosen"
    /\ \E d1, d2 \in DefinedDates :
           /\ d1 < d2
           /\ Freq(d1) = 2
           /\ Freq(d2) = 3
           /\ overall = d2

----------------------------------------------------------------------------
(* Properties of the aggregation and of the per-station predictions.       *)

\* Number of trips of rides on date d from station st.
Trips(d, st) ==
    Cardinality({i \in 1..Len(rides) :
        rides[i].data_date = d /\ rides[i].depature_station = st})

\* C15: daily has exactly one row for every (date, station) pair that has a
\* trip, holding the number of its trips, and no other row.
C15_OneRowPerPair ==
    pc = "aggregated" =>
        /\ \A i, j \in 1..Len(daily) :
               (daily[i].data_date = daily[j].data_date
                    /\ daily[i].station = daily[j].station) => i = j
        /\ \A i \in 1..Len(daily) :
               /\ daily[i].departures = Trips(daily[i].data_date, daily[i].station)
               /\ daily[i].departures >= 1
        /\ \A k \in 1..Len(rides) :
               \E i \in 1..Len(daily) :
                   /\ daily[i].data_date = rides[k].data_date
                   /\ daily[i].station = rides[k].depature_station

\* C15 witness: two stations on the same date, one of them with two trips, and
\* fewer rows in daily than trips.
C15_Witness ==
    /\ pc = "aggregated"
    /\ Len(daily) < Len(rides)
    /\ \E i, j \in 1..Len(daily) :
           /\ daily[i].data_date = daily[j].data_date
           /\ daily[i].station # daily[j].station
           /\ daily[i].departures = 2

\* The rows of daily of station st, in the order of daily.
OwnRows(st) == SelectSeq(daily, LAMBDA row : row.station = st)

\* C20: every count of daily is at least 1; in the frame of every predicted
\* station the baseline is at least 1 wherever it is defined and the ratio is
\* defined exactly from the window-th point on; so only a station with fewer
\* than window observations has no defined ratio and reaches the raw-count
\* fallback, and any other station is predicted at a point that has a ratio.
C20_CountsPositive ==
    pc = "predicted" =>
        /\ \A i \in 1..Len(daily) : daily[i].departures >= 1
        /\ \A k \in 1..Len(preds.rows) :
               LET g == OwnRows(preds.rows[k].station)
                   t == with_ratio(g, window)
                   d == preds.rows[k].pred_ceremony_date
               IN  /\ \A p \in 1..Len(t) :
                          /\ (~t[p].baseline.nan) => t[p].baseline.twice >= 2
                          /\ notna(t[p].ratio) <=> p >= window
                   /\ ~has_ratio(t) <=> Len(g) < window
                   /\ Len(g) >= window =>
                          /\ guarantee => d # NaT
                          /\ d # NaT => \E p \in window..Len(t) : t[p].data_date = d

\* C20 witness: a station with window observations is predicted at a point
\* that has a ratio, although an earlier point has more departures.
C20_Witness ==
    /\ pc = "predicted" /\ guarantee
    /\ \E k \in 1..Len(preds.rows) :
           LET g == OwnRows(preds.rows[k].station)
           IN  /\ Len(g) >= window
               /\ g[1].departures > g[Len(g)].departures
               /\ preds.rows[k].pred_ceremony_date = g[Len(g)].data_date

\* The orders in which n raw trip rows can be read.
RowOrders(n) ==
    {f \in [1..n -> 1..n] : \A i, j \in 1..n : f[i] = f[j] => i = j}

Orders == [n \in 0..MaxRides |-> RowOrders(n)]

Permute(r, f) == [i \in 1..Len(r) |-> r[f[i]]]

Rows(s) == {s[i] : i \in 1..Len(s)}

\* The frames aggregate_daily_counts gives for the permutations of r.
PermutedCounts(r) ==
    {aggregate_daily_counts(Permute(r, f)) : f \in Orders[Len(r)]}

\* C12: every permutation of the raw trip rows gives aggregate_daily_counts
\* the very frame it gave for the order read, hence the same set of (date,
\* station, count) rows, and gives every station the predicted date of the
\* run; the frame being the only input of predict_ceremony_dates besides the
\* configuration, this holds whatever the configuration.
C12_OrderIndependent ==
    pc = "predicted" =>
        LET frames == PermutedCounts(rides)
        IN  /\ frames = {daily}
            /\ \A permuted \in frames :
                   /\ Rows(permuted) = Rows(daily)
                   /\ Rows(predict_ceremony_dates(permuted, schools, window,
                               multiplier, min_count, guarantee).rows)
                          = Rows(preds.rows)

\* C12 witness: trips of one key are separated by a trip of another key, and
\* a station has a predicted date.
C12_Witness ==
    /\ pc = "predicted"
    /\ Len(rides) = 3 /\ rides[1] = rides[3] /\ rides[1] # rides[2]
    /\ \E k \in 1..Len(preds.rows) : preds.rows[k].pred_ceremony_date # NaT

\* The raw trip rows of station st alone.
OwnRides(st) == SelectSeq(rides, LAMBDA row : row.depature_station = st)

\* C13: the prediction record of every target station in the run is the one
\* of a run on that station's own trips with that station as only target:
\* the run completes and neither the rows of the other stations, nor the
\* other target stations, with or without data, count for it.
C13_StationIsolated ==
    pc = "predicted" =>
        \A st \in schools :
            Rows(predict_ceremony_dates(aggregate_daily_counts(OwnRides(st)), {st},
                     window, multiplier, min_count, guarantee).rows)
                = {row \in Rows(preds.rows) : row.station = st}

\* C13 witness: a station is predicted a date while another target station
\* has trips too.
C13_Witness ==
    /\ pc = "predicted"
    /\ \E k \in 1..Len(preds.rows) :
           /\ preds.rows[k].pred_ceremony_date # NaT
           /\ \E i \in 1..Len(rides) :
                  /\ rides[i].depature_station # preds.rows[k].station
                  /\ rides[i].depature_station \in schools


----------------------------------------------------------------------------
(* The calendar filter of school_celemony_prediction_2.py.                 *)

\* dt.weekday(): Monday is 0 and Sunday is 6; day 1 of the model is a Friday.
weekday(d) == (d + 3) % 7

\* jpholiday.is_holiday(dt.date())
is_holiday(d) == d \in holidays

\* is_weekday_and_not_holiday without the holiday test.
is_weekday_and_not_holiday_weekday(d) == weekday(d) < 5

\* is_weekday_and_not_holiday letting Saturdays through.
is_weekday_and_not_holiday_saturday(d) == weekday(d) <= 5 /\ ~is_holiday(d)

is_weekday_and_not_holiday(d) == weekday(d) < 5 /\ ~is_holiday(d)

\* predict_ceremony_dates of school_celemony_prediction_2.py: the same
\* grouping, with the detect_start_date of that script.
predict_ceremony_dates_2(d, target, w, m, mc, g) ==
    LET subset == SelectSeq(d, LAMBDA row : row.station \in target)
        groups == {subset[i].station : i \in 1..Len(subset)}
        nth(k) == CHOOSE x \in groups : Cardinality({y \in groups : y < x}) = k - 1
        group(st) == SelectSeq(subset, LAMBDA row : row.station = st)
    IN  DataFrame([k \in 1..Cardinality(groups) |->
            [station |-> nth(k),
             pred_ceremony_date |-> detect_start_date_2(group(nth(k)), w, m, mc, g)]])

\* The daily counts of station 1 over the days 1..MaxLen: a row for every day
\* that has trips, in date order, as aggregate_daily_counts leaves them.
Observed(c) ==
    SelectSeq([d \in 1..MaxLen |-> [data_date |-> d, station |-> 1, departures |-> c[d]]],
              LAMBDA row : row.departures >= 1)

InitFilter ==
    /\ pc = "aggregated"
    /\ \E c \in [1..MaxLen -> 0..MaxCount] :
           /\ \E d \in 1..MaxLen : c[d] >= 1
           /\ daily = Observed(c)
    /\ schools = {1}
    /\ holidays \in {{}} \cup {{d} : d \in 1..MaxLen}
    /\ exclude_weekend_holiday \in BOOLEAN
    /\ mask = <<>>
    /\ window \in Windows
    /\ multiplier = [num |-> 3, den |-> 2]
    /\ min_count = 1
    /\ guarantee \in BOOLEAN
    /\ rides = <<>>
    /\ preds = NoFrame
    /\ overall = NaT
    /\ fault = "none"
    /\ df = <<>>
    /\ dateA = NaT
    /\ dateB = NaT
    /\ frame = <<>>
    /\ names = <<>>
    /\ summary = <<>>

\* if args.exclude_weekend_holiday:
\*     mask = daily["data_date"].apply(is_weekday_and_not_holiday)
\*     daily = daily[mask]
FilterCalendar ==
    /\ pc = "aggregated"
    /\ IF exclude_weekend_holiday
       THEN /\ mask' = [i \in 1..Len(daily) |->
                           is_weekday_and_not_holiday(daily[i].data_date)]
            /\ daily' = SelectSeq(daily,
                            LAMBDA row : is_weekday_and_not_holiday(row.data_date))
       ELSE UNCHANGED <<mask, daily>>
    /\ pc' = "filtered"
    /\ UNCHANGED <<rides, schools, preds, overall, fault, config, detectVars,
                   holidays, exclude_weekend_holiday, summaryVars>>

\* preds = predict_ceremony_dates(daily, schools, ...); frame is the frame
\* detect_start_date builds for the rows of the one station of schools.
PredictCeremonyDates2 ==
    /\ pc = "filtered"
    /\ preds' = predict_ceremony_dates_2(daily, schools, window, multiplier,
                                         min_count, guarantee)
    /\ frame' = with_ratio(SelectSeq(daily, LAMBDA row : row.station \in schools), window)
    /\ pc' = "predicted"
    /\ UNCHANGED <<rides, schools, daily, overall, fault, config, df, dateA, dateB,
                   calendarVars, summaryVars>>

NextFilter == FilterCalendar \/ PredictCeremonyDates2

SpecFilter == InitFilter /\ [][NextFilter]_vars

Weekend(d) == weekday(d) \in {5, 6}

\* C16: with --exclude-weekend-holiday the filter step leaves in daily, in
\* their order, exactly the rows whose date is neither a Saturday, a Sunday
\* nor a public holiday; and in the frame then built for detection the p-th
\* remaining row has no baseline for p < window and otherwise the median of
\* the departures of the remaining rows p-window+1..p, whatever their dates
\* (the baseline is held as twice its value).
C16_FilterBeforeBaseline ==
    [][exclude_weekend_holiday =>
          /\ pc = "aggregated" =>
                 /\ Rows(daily') = {row \in Rows(daily) :
                        ~Weekend(row.data_date) /\ row.data_date \notin holidays}
                 /\ \A i, j \in 1..Len(daily') :
                        i < j => daily'[i].data_date < daily'[j].data_date
          /\ pc = "filtered" =>
                 /\ Len(frame') = Len(daily)
                 /\ \A p \in 1..Len(daily) :
                        /\ frame'[p].data_date = daily[p].data_date
                        /\ ~Weekend(frame'[p].data_date)
                        /\ frame'[p].data_date \notin holidays
                        /\ IF p < window THEN frame'[p].baseline.nan
                           ELSE /\ ~frame'[p].baseline.nan
                                /\ frame'[p].baseline.twice =
                                       KthDeparture(daily, (p - window + 1)..p,
                                                    (window + 1) \div 2)
                                     + KthDeparture(daily, (p - window + 1)..p,
                                                    window \div 2 + 1)]_vars

\* C16 witness: the filter removed rows and a row kept has a baseline over a
\* window of remaining rows that spans more calendar days than the window.
C16_Witness ==
    /\ pc = "predicted"
    /\ exclude_weekend_holiday
    /\ \E i \in 1..Len(mask) : ~mask[i]
    /\ \E p \in window..Len(frame) :
           /\ ~frame[p].baseline.nan
           /\ frame[p].data_date - frame[p - window + 1].data_date > window - 1
           /\ frame[p].baseline.twice # 2 * frame[p].departures

\* The dates of the rows of a series.
DatesOf(s) == {s[i].data_date : i \in 1..Len(s)}

\* d is undefined or a date of the series s and, when the calendar filter is
\* enabled, neither a Saturday, a Sunday nor a public holiday.
ObservedDate(d, s) ==
    d # NaT =>
        /\ d \in DatesOf(s)
        /\ exclude_weekend_holiday => ~Weekend(d) /\ d \notin holidays

\* C18: the date predicted for a station, when defined, is the date of one of
\* the rows of that station passed to detection, and so with the calendar
\* filter enabled it is no Saturday, Sunday or public holiday; the same holds
\* of the date detect_start_date of school_celemony_prediction.py returns on
\* those rows for every multiplier and min_count.
C18_DateIsObserved ==
    pc = "predicted" =>
        \A k \in 1..Len(preds.rows) :
            LET g == OwnRows(preds.rows[k].station)
            IN  /\ ObservedDate(preds.rows[k].pred_ceremony_date, g)
                /\ \A m \in Multipliers, mc \in MinCounts :
                       /\ ObservedDate(detect_start_date(g, window, m, mc, guarantee), g)
                       /\ ObservedDate(detect_start_date_2(g, window, m, mc, guarantee), g)

\* C18 witness: the filter removed rows of the station and the station is
\* predicted a date.
C18_Witness ==
    /\ pc = "predicted"
    /\ exclude_weekend_holiday
    /\ \E i \in 1..Len(mask) : ~mask[i]
    /\ holidays # {}
    /\ \E k \in 1..Len(preds.rows) : preds.rows[k].pred_ceremony_date # NaT


----------------------------------------------------------------------------
(* Properties of the summary by date.                                      *)

\* C17: the summary has one row per distinct defined predicted date, in
\* ascending date order, each holding the names of the stations predicted
\* for that date joined by ", " in the order of preds, and as count the
\* number of those stations.
C17_SummaryCounts ==
    pc = "saved" =>
        /\ {summary[k].pred_ceremony_date : k \in 1..Len(summary)} = DefinedDates
        /\ \A j, k \in 1..Len(summary) :
               j < k => summary[j].pred_ceremony_date < summary[k].pred_ceremony_date
        /\ \A k \in 1..Len(summary) :
               LET g == SelectSeq(preds.rows, LAMBDA row :
                            row.pred_ceremony_date = summary[k].pred_ceremony_date)
               IN  /\ summary[k].stations = join([i \in 1..Len(g) |-> names[g[i].station]])
                   /\ summary[k].count = Freq(summary[k].pred_ceremony_date)

\* The name nm stands in the joined list x: as a run of x between two
\* occurrences of ", " or an end of x.
Listed(nm, x) ==
    \E a \in 1..(Len(x) - Len(nm) + 1) :
        /\ SubSeq(x, a, a + Len(nm) - 1) = nm
        /\ (a = 1 \/ x[a - 1] = Sep)
        /\ (a + Len(nm) - 1 = Len(x) \/ x[a + Len(nm)] = Sep)

RECURSIVE SumOfCounts(_)
SumOfCounts(s) ==
    IF s = <<>> THEN 0 ELSE s[1].count + SumOfCounts(Tail(s))

\* C21: in the summary every station with a defined predicted date is listed
\* in the row of its date and in no other row, a station with no date is
\* listed in no row, the counts add up to the number of defined predictions,
\* and the overall date, when defined, is the date of a row whose count is
\* the largest of all rows.
C21_SummaryPartitions ==
    pc = "saved" =>
        /\ \A i \in 1..Len(preds.rows) :
               LET d == preds.rows[i].pred_ceremony_date
                   nm == names[preds.rows[i].station]
               IN  /\ d # NaT => \E k \in 1..Len(summary) :
                                     summary[k].pred_ceremony_date = d
                   /\ \A k \in 1..Len(summary) :
                          Listed(nm, summary[k].stations)
                              <=> (d # NaT /\ summary[k].pred_ceremony_date = d)
        /\ SumOfCounts(summary) = Cardinality(DefinedRows)
        /\ overall # NaT =>
               \E k \in 1..Len(summary) :
                   /\ summary[k].pred_ceremony_date = overall
                   /\ \A j \in 1..Len(summary) : summary[j].count <= summary[k].count

====
